---- MODULE Spec2Model ----
(***************************************************************************)
(* Invoicing service: the four handlers of app/routes/invoices.py          *)
(* (create_invoice, list_invoices, get_invoice, delete_invoice) over the   *)
(* tables of migrations/002_create_invoicing_tables.py.                    *)
(*                                                                         *)
(* Money is REAL in the schema.  Amounts are integers here, in thousandths *)
(* of the currency unit (10.0 is 10000), so that the 10% tax of any sum of *)
(* the catalog's prices is an exact integer.                               *)
(*                                                                         *)
(* Every handler runs inside `with get_db() as conn`.  app/database.py is  *)
(* not among the sources; its context manager is modelled from the         *)
(* handler's own comment (invoices.py line 95) and the specification: it   *)
(* commits when the block ends normally and rolls back when an exception   *)
(* leaves it.  Reads done before the first write of a handler see the      *)
(* committed tables; the first write takes the database's single write     *)
(* lock, which is held until commit or rollback.                           *)
(***************************************************************************)
EXTENDS Integers, Sequences, FiniteSets, TLC

VARIABLES
    products,   \* products table: id -> [name, price]
    db,         \* committed invoices, invoice_items and their AUTOINCREMENT counters
    tx,         \* the tables as seen by the transaction holding the write lock
    lock,       \* the worker holding the write lock, or NoWorker
    pc,         \* each worker's position in the handler it runs
    local,      \* each worker's local variables
    response,   \* the response most recently sent
    history     \* number of 201 responses to create and of 204 responses to delete

vars == <<products, db, tx, lock, pc, local, response, history>>

\* ---------------------------------------------------------------- bounds

NumWorkers == 2     \* requests in flight at once
MaxItems == 2       \* longest items list of a request
MaxQty == 2         \* largest quantity of a request item
MaxId == 2          \* invoices inserted over a run

Workers == 1..NumWorkers
NoWorker == 0

\* ---------------------------------------------------------------- reference data

\* seed_clients; only the name is read by the handlers
clients ==
    1 :> [name |-> "Acme Corp"] @@
    2 :> [name |-> "Globex Inc"] @@
    3 :> [name |-> "Soylent Corp"]

\* seed_products, prices in thousandths
seed_products ==
    1 :> [name |-> "Widget A", price |-> 10000] @@
    2 :> [name |-> "Widget B", price |-> 25500] @@
    3 :> [name |-> "Gadget X", price |-> 50000] @@
    4 :> [name |-> "Gadget Y", price |-> 99990] @@
    5 :> [name |-> "Service Hour", price |-> 150000]

\* tax_amount = total_amount * 0.10
TaxRatePercent == 10

\* ---------------------------------------------------------------- requests

\* the ids a request may name: an existing one and one past the seed rows
ReqClients == {1, 4}
ReqProducts == {1, 6}
InvoiceNos == {"INV-001", "INV-002"}
InvoiceIds == 1..(MaxId + 1)

InvoiceItemCreate == [product_id : ReqProducts, quantity : 1..MaxQty]

ItemLists == UNION {[1..n -> InvoiceItemCreate] : n \in 0..MaxItems}

InvoiceCreate ==
    [client_id : ReqClients, invoice_no : InvoiceNos,
     issue_date : {"2023-10-27"}, due_date : {"2023-11-27"},
     items : ItemLists]

\* ---------------------------------------------------------------- helpers

RECURSIVE SumLineTotals(_)
SumLineTotals(items) ==
    IF items = <<>> THEN 0
    ELSE Head(items).line_total + SumLineTotals(Tail(items))

\* the loop of calculate_invoice_totals: the index of the first item whose
\* product row is missing, 0 when every product is found
FirstMissing(items, prods) ==
    LET bad == {k \in 1..Len(items) : items[k].product_id \notin DOMAIN prods}
    IN  IF bad = {} THEN 0 ELSE CHOOSE k \in bad : \A j \in bad : k <= j

\* the quantity left out of the line total
ProcessedItem_no_quantity(item, prods) ==
    [product_id   |-> item.product_id,
     product_name |-> prods[item.product_id].name,
     unit_price   |-> prods[item.product_id].price,
     quantity     |-> item.quantity,
     line_total   |-> prods[item.product_id].price]

ProcessedItem(item, prods) ==
    [product_id   |-> item.product_id,
     product_name |-> prods[item.product_id].name,
     unit_price   |-> prods[item.product_id].price,
     quantity     |-> item.quantity,
     line_total   |-> prods[item.product_id].price * item.quantity]

\* a missing product skipped instead of raising
calculate_invoice_totals_skip(items, prods) ==
    LET found == SelectSeq(items, LAMBDA it : it.product_id \in DOMAIN prods)
        processed == [k \in 1..Len(found) |-> ProcessedItem(found[k], prods)]
        total == SumLineTotals(processed)
        tax == (total * TaxRatePercent) \div 100
    IN  [ok |-> TRUE, processed_items |-> processed,
         tax_amount |-> tax, total_amount |-> total + tax]

calculate_invoice_totals(items, prods) ==
    LET miss == FirstMissing(items, prods)
    IN  IF miss # 0
        THEN [ok |-> FALSE, product_id |-> items[miss].product_id]
        ELSE LET processed == [k \in 1..Len(items) |-> ProcessedItem(items[k], prods)]
                 total == SumLineTotals(processed)
                 tax == (total * TaxRatePercent) \div 100
             IN  [ok |-> TRUE, processed_items |-> processed,
                  tax_amount |-> tax, total_amount |-> total + tax]

\* the rows of a set, as a sequence in increasing id
RECURSIVE AscendingById(_)
AscendingById(rows) ==
    IF rows = {} THEN <<>>
    ELSE LET first == CHOOSE r \in rows : \A s \in rows : r.id <= s.id
         IN  <<first>> \o AscendingById(rows \ {first})

\* ORDER BY i.id DESC
RECURSIVE DescendingById(_)
DescendingById(rows) ==
    IF rows = {} THEN <<>>
    ELSE LET first == CHOOSE r \in rows : \A s \in rows : r.id >= s.id
         IN  <<first>> \o DescendingById(rows \ {first})

ItemsOf(tables, invoice_id) ==
    {ii \in tables.invoice_items : ii.invoice_id = invoice_id}

NoBody == [none |-> TRUE]

HTTPResponse(op, arg, status, detail, body) ==
    [op |-> op, arg |-> arg, status |-> status, detail |-> detail, body |-> body]

Idle == [op |-> "none"]

\* ---------------------------------------------------------------- get_db

\* leaving the with block normally: commit
Commit(w) ==
    /\ db' = tx
    /\ tx' = tx
    /\ lock' = NoWorker

\* an exception leaving the with block: rollback
Rollback(w) ==
    /\ tx' = db
    /\ lock' = NoWorker
    /\ UNCHANGED db

\* ---------------------------------------------------------------- create_invoice

CreatesInFlight ==
    Cardinality({w \in Workers : pc[w] \in {"insert_invoice", "insert_items", "return_created"}})

\* lines 89-98: the client lookup, then calculate_invoice_totals, before any write
validate_invoice(invoice, prods) ==
    IF invoice.client_id \notin DOMAIN clients
    THEN [status |-> 404, detail |-> [kind |-> "Client not found"]]
    ELSE LET r == calculate_invoice_totals(invoice.items, prods)
         IN  IF ~r.ok
             THEN [status |-> 404,
                   detail |-> [kind |-> "Product not found", product_id |-> r.product_id]]
             ELSE [status |-> 0,
                   client_name |-> clients[invoice.client_id].name,
                   processed_items |-> r.processed_items,
                   tax_amount |-> r.tax_amount,
                   total_amount |-> r.total_amount]

\* lines 83-98: the handler up to its first write; its reads see the committed
\* clients and products, which no handler writes
CreateInvoiceValidate(w, invoice) ==
    /\ pc[w] = "idle"
    /\ db.seq_invoices + CreatesInFlight < MaxId
    /\ LET v == validate_invoice(invoice, products)
       IN  IF v.status = 404
           THEN /\ response' = HTTPResponse("create", invoice.invoice_no, 404,
                                            v.detail, NoBody)
                /\ UNCHANGED <<pc, local>>
           ELSE /\ pc' = [pc EXCEPT ![w] = "insert_invoice"]
                /\ local' = [local EXCEPT ![w] =
                       [invoice |-> invoice,
                        client_name |-> v.client_name,
                        processed_items |-> v.processed_items,
                        tax_amount |-> v.tax_amount,
                        total_amount |-> v.total_amount,
                        invoice_id |-> 0,
                        next |-> 1]]
                /\ UNCHANGED response
    /\ UNCHANGED <<products, db, tx, lock, history>>

\* invoice_no TEXT NOT NULL UNIQUE
InvoiceNoTaken(tables, invoice_no) ==
    \E i \in tables.invoices : i.invoice_no = invoice_no

\* lines 107-108: the handler names sqlite3.IntegrityError, and the module
\* imports no sqlite3 (lines 1-5): evaluating the except clause raises
\* NameError, which leaves the with block and reaches `except Exception`.
IntegrityErrorResponse(invoice) ==
    HTTPResponse("create", invoice.invoice_no, 500,
                 [kind |-> "Database error: name 'sqlite3' is not defined"], NoBody)

InvoiceRow(l, id) ==
    [id |-> id,
     invoice_no |-> l.invoice.invoice_no,
     issue_date |-> l.invoice.issue_date,
     due_date |-> l.invoice.due_date,
     client_id |-> l.invoice.client_id,
     tax_amount |-> l.tax_amount,
     total_amount |-> l.total_amount]

\* the header committed as soon as it is inserted
InsertInvoice_autocommit(w) ==
    /\ pc[w] = "insert_invoice"
    /\ lock = NoWorker
    /\ IF InvoiceNoTaken(db, local[w].invoice.invoice_no)
       THEN /\ response' = IntegrityErrorResponse(local[w].invoice)
            /\ pc' = [pc EXCEPT ![w] = "idle"]
            /\ local' = [local EXCEPT ![w] = Idle]
            /\ Rollback(w)
       ELSE LET id == db.seq_invoices + 1
            IN  /\ tx' = [db EXCEPT !.invoices = @ \cup {InvoiceRow(local[w], id)},
                                    !.seq_invoices = id]
                /\ db' = tx'
                /\ lock' = w
                /\ local' = [local EXCEPT ![w].invoice_id = id]
                /\ pc' = [pc EXCEPT ![w] =
                        IF local[w].processed_items = <<>>
                        THEN "return_created" ELSE "insert_items"]
                /\ UNCHANGED response
    /\ UNCHANGED <<products, history>>

\* lines 100-108: INSERT INTO invoices, the first write of the handler
InsertInvoice(w) ==
    /\ pc[w] = "insert_invoice"
    /\ lock = NoWorker
    /\ IF InvoiceNoTaken(db, local[w].invoice.invoice_no)
       THEN /\ response' = IntegrityErrorResponse(local[w].invoice)
            /\ pc' = [pc EXCEPT ![w] = "idle"]
            /\ local' = [local EXCEPT ![w] = Idle]
            /\ Rollback(w)
       ELSE LET id == db.seq_invoices + 1
            IN  /\ tx' = [db EXCEPT !.invoices = @ \cup {InvoiceRow(local[w], id)},
                                    !.seq_invoices = id]
                /\ lock' = w
                /\ local' = [local EXCEPT ![w].invoice_id = id]
                /\ pc' = [pc EXCEPT ![w] =
                        IF local[w].processed_items = <<>>
                        THEN "return_created" ELSE "insert_items"]
                /\ UNCHANGED <<db, response>>
    /\ UNCHANGED <<products, history>>

InvoiceItemRow(l, item, id) ==
    [id |-> id,
     invoice_id |-> l.invoice_id,
     product_id |-> item.product_id,
     quantity |-> item.quantity,
     unit_price |-> item.unit_price,
     line_total |-> item.line_total]

\* lines 110-115: one turn of the loop INSERT INTO invoice_items
InsertInvoiceItem(w) ==
    /\ pc[w] = "insert_items"
    /\ lock = w
    /\ LET l == local[w]
           id == tx.seq_items + 1
       IN  /\ tx' = [tx EXCEPT
                        !.invoice_items = @ \cup {InvoiceItemRow(l, l.processed_items[l.next], id)},
                        !.seq_items = id]
           /\ local' = [local EXCEPT ![w].next = @ + 1]
           /\ pc' = [pc EXCEPT ![w] =
                   IF l.next = Len(l.processed_items)
                   THEN "return_created" ELSE "insert_items"]
    /\ UNCHANGED <<products, db, lock, response, history>>

InvoiceItemResponse(id, item) ==
    [id |-> id,
     product_name |-> item.product_name,
     quantity |-> item.quantity,
     unit_price |-> item.unit_price,
     line_total |-> item.line_total]

\* lines 117-139: the response built from the computed values, item ids 0
CreatedResponse(l) ==
    [id |-> l.invoice_id,
     invoice_no |-> l.invoice.invoice_no,
     issue_date |-> l.invoice.issue_date,
     due_date |-> l.invoice.due_date,
     client_name |-> l.client_name,
     tax_amount |-> l.tax_amount,
     total_amount |-> l.total_amount,
     items |-> [k \in 1..Len(l.processed_items) |->
                   InvoiceItemResponse(0, l.processed_items[k])]]

\* lines 130-139: return, leaving the with block
ReturnCreated(w) ==
    /\ pc[w] = "return_created"
    /\ lock = w
    /\ Commit(w)
    /\ response' = HTTPResponse("create", local[w].invoice.invoice_no, 201,
                                [kind |-> "Created"], CreatedResponse(local[w]))
    /\ history' = [history EXCEPT !.created = @ + 1]
    /\ pc' = [pc EXCEPT ![w] = "idle"]
    /\ local' = [local EXCEPT ![w] = Idle]
    /\ UNCHANGED products

\* ---------------------------------------------------------------- list_invoices

InvoiceListResponse(row) ==
    [id |-> row.id,
     invoice_no |-> row.invoice_no,
     issue_date |-> row.issue_date,
     due_date |-> row.due_date,
     client_name |-> clients[row.client_id].name,
     total_amount |-> row.total_amount]

\* ORDER BY i.id ASC
list_invoices_ascending(tables) ==
    LET joined == {i \in tables.invoices : i.client_id \in DOMAIN clients}
        rows == AscendingById(joined)
    IN  [k \in 1..Len(rows) |-> InvoiceListResponse(rows[k])]

\* lines 152-168: invoices JOIN clients ORDER BY i.id DESC
list_invoices(tables) ==
    LET joined == {i \in tables.invoices : i.client_id \in DOMAIN clients}
        rows == DescendingById(joined)
    IN  [k \in 1..Len(rows) |-> InvoiceListResponse(rows[k])]

ListInvoices(w) ==
    /\ pc[w] = "idle"
    /\ response' = HTTPResponse("list", 0, 200, [kind |-> "OK"], list_invoices(db))
    /\ UNCHANGED <<products, db, tx, lock, pc, local, history>>

\* ---------------------------------------------------------------- get_invoice

\* lines 180-186: invoices JOIN clients WHERE i.id = ?
SelectInvoice(tables, invoice_id) ==
    {i \in tables.invoices : i.id = invoice_id /\ i.client_id \in DOMAIN clients}

\* lines 192-208: invoice_items JOIN products WHERE ii.invoice_id = ?
SelectInvoiceItems(tables, prods, invoice_id) ==
    LET joined == {ii \in ItemsOf(tables, invoice_id) : ii.product_id \in DOMAIN prods}
        rows == AscendingById(joined)
    IN  [k \in 1..Len(rows) |->
            [id |-> rows[k].id,
             product_name |-> prods[rows[k].product_id].name,
             quantity |-> rows[k].quantity,
             unit_price |-> rows[k].unit_price,
             line_total |-> rows[k].line_total]]

InvoiceResponse(row, items) ==
    [id |-> row.id,
     invoice_no |-> row.invoice_no,
     issue_date |-> row.issue_date,
     due_date |-> row.due_date,
     client_name |-> clients[row.client_id].name,
     tax_amount |-> row.tax_amount,
     total_amount |-> row.total_amount,
     items |-> items]

NotFoundResponse(op, invoice_id) ==
    HTTPResponse(op, invoice_id, 404, [kind |-> "Invoice not found"], NoBody)

\* the handler run without interruption on the given tables
get_invoice(tables, prods, invoice_id) ==
    LET found == SelectInvoice(tables, invoice_id)
    IN  IF found = {}
        THEN NotFoundResponse("get", invoice_id)
        ELSE HTTPResponse("get", invoice_id, 200, [kind |-> "OK"],
                 InvoiceResponse(CHOOSE i \in found : TRUE,
                                 SelectInvoiceItems(tables, prods, invoice_id)))

\* lines 180-189: the header query
GetInvoiceHeader(w, invoice_id) ==
    /\ pc[w] = "idle"
    /\ LET found == SelectInvoice(db, invoice_id)
       IN  IF found = {}
           THEN /\ response' = NotFoundResponse("get", invoice_id)
                /\ UNCHANGED <<pc, local>>
           ELSE /\ pc' = [pc EXCEPT ![w] = "get_items"]
                /\ local' = [local EXCEPT ![w] = [invoice |-> CHOOSE i \in found : TRUE]]
                /\ UNCHANGED response
    /\ UNCHANGED <<products, db, tx, lock, history>>

\* lines 191-219: the items query and the response
GetInvoiceItems(w) ==
    /\ pc[w] = "get_items"
    /\ response' = HTTPResponse("get", local[w].invoice.id, 200, [kind |-> "OK"],
            InvoiceResponse(local[w].invoice,
                            SelectInvoiceItems(db, products, local[w].invoice.id)))
    /\ pc' = [pc EXCEPT ![w] = "idle"]
    /\ local' = [local EXCEPT ![w] = Idle]
    /\ UNCHANGED <<products, db, tx, lock, history>>

\* ---------------------------------------------------------------- delete_invoice

\* the existence check left out
DeleteInvoiceCheck_unchecked(w, invoice_id) ==
    /\ pc[w] = "idle"
    /\ pc' = [pc EXCEPT ![w] = "delete_items"]
    /\ local' = [local EXCEPT ![w] = [invoice_id |-> invoice_id]]
    /\ UNCHANGED <<products, db, tx, lock, response, history>>

\* lines 233-236: the existence check
DeleteInvoiceCheck(w, invoice_id) ==
    /\ pc[w] = "idle"
    /\ IF \A i \in db.invoices : i.id # invoice_id
       THEN /\ response' = NotFoundResponse("delete", invoice_id)
            /\ UNCHANGED <<pc, local>>
       ELSE /\ pc' = [pc EXCEPT ![w] = "delete_items"]
            /\ local' = [local EXCEPT ![w] = [invoice_id |-> invoice_id]]
            /\ UNCHANGED response
    /\ UNCHANGED <<products, db, tx, lock, history>>

\* line 239: DELETE FROM invoice_items, the first write of the handler
DeleteItemRows(tables, invoice_id) ==
    [tables EXCEPT !.invoice_items = @ \ ItemsOf(tables, invoice_id)]

DeleteInvoiceItems(w) ==
    /\ pc[w] = "delete_items"
    /\ lock = NoWorker
    /\ tx' = DeleteItemRows(db, local[w].invoice_id)
    /\ lock' = w
    /\ pc' = [pc EXCEPT ![w] = "delete_invoice"]
    /\ UNCHANGED <<products, db, local, response, history>>

\* the header row left in place
DeleteInvoiceRow_keep(w) ==
    /\ pc[w] = "delete_invoice"
    /\ lock = w
    /\ tx' = tx
    /\ pc' = [pc EXCEPT ![w] = "return_deleted"]
    /\ UNCHANGED <<products, db, lock, local, response, history>>

\* DELETE FROM invoices without its WHERE clause
DeleteInvoiceRow_all(w) ==
    /\ pc[w] = "delete_invoice"
    /\ lock = w
    /\ tx' = [tx EXCEPT !.invoices = {}]
    /\ pc' = [pc EXCEPT ![w] = "return_deleted"]
    /\ UNCHANGED <<products, db, lock, local, response, history>>

\* line 242: DELETE FROM invoices
DeleteInvoiceRow(w) ==
    /\ pc[w] = "delete_invoice"
    /\ lock = w
    /\ tx' = [tx EXCEPT !.invoices = {i \in @ : i.id # local[w].invoice_id}]
    /\ pc' = [pc EXCEPT ![w] = "return_deleted"]
    /\ UNCHANGED <<products, db, lock, local, response, history>>

\* line 244: return None, leaving the with block
ReturnDeleted(w) ==
    /\ pc[w] = "return_deleted"
    /\ lock = w
    /\ Commit(w)
    /\ response' = HTTPResponse("delete", local[w].invoice_id, 204,
                                [kind |-> "No Content"], NoBody)
    /\ history' = [history EXCEPT !.deleted = @ + 1]
    /\ pc' = [pc EXCEPT ![w] = "idle"]
    /\ local' = [local EXCEPT ![w] = Idle]
    /\ UNCHANGED products

\* ---------------------------------------------------------------- failures

\* lines 143-144, 248-249: a statement of an open transaction raises (an item
\* insert, a delete, the commit); the exception leaves the with block and the
\* handler answers 500
StatementFails(w) ==
    /\ lock = w
    /\ Rollback(w)
    /\ response' = HTTPResponse(
            IF pc[w] \in {"insert_items", "return_created"} THEN "create" ELSE "delete",
            IF pc[w] \in {"insert_items", "return_created"}
            THEN local[w].invoice.invoice_no ELSE local[w].invoice_id,
            500, [kind |-> "Database error"], NoBody)
    /\ pc' = [pc EXCEPT ![w] = "idle"]
    /\ local' = [local EXCEPT ![w] = Idle]
    /\ UNCHANGED <<products, history>>

\* ---------------------------------------------------------------- catalog

NewPrices == {20000}

\* a product's price is changed by the catalog's maintainer
ChangePrice(p, price) ==
    /\ p \in DOMAIN products
    /\ products[p].price # price
    /\ products' = [products EXCEPT ![p].price = price]
    /\ UNCHANGED <<db, tx, lock, pc, local, response, history>>

\* a product row is removed by the catalog's maintainer
RemoveProduct(p) ==
    /\ p \in DOMAIN products
    /\ products' = [q \in DOMAIN products \ {p} |-> products[q]]
    /\ UNCHANGED <<db, tx, lock, pc, local, response, history>>

\* ---------------------------------------------------------------- specification

EmptyTables ==
    [invoices |-> {}, invoice_items |-> {}, seq_invoices |-> 0, seq_items |-> 0]

Init ==
    /\ products = seed_products
    /\ db = EmptyTables
    /\ tx = EmptyTables
    /\ lock = NoWorker
    /\ pc = [w \in Workers |-> "idle"]
    /\ local = [w \in Workers |-> Idle]
    /\ response = HTTPResponse("none", 0, 0, [kind |-> "none"], NoBody)
    /\ history = [created |-> 0, deleted |-> 0]

HandlerStep(W) ==
    \/ \E w \in W, invoice \in InvoiceCreate : CreateInvoiceValidate(w, invoice)
    \/ \E w \in W : InsertInvoice(w)
    \/ \E w \in W : InsertInvoiceItem(w)
    \/ \E w \in W : ReturnCreated(w)
    \/ \E w \in W : ListInvoices(w)
    \/ \E w \in W, id \in InvoiceIds : GetInvoiceHeader(w, id)
    \/ \E w \in W : GetInvoiceItems(w)
    \/ \E w \in W, id \in InvoiceIds : DeleteInvoiceCheck(w, id)
    \/ \E w \in W : DeleteInvoiceItems(w)
    \/ \E w \in W : DeleteInvoiceRow(w)
    \/ \E w \in W : ReturnDeleted(w)
    \/ \E w \in W : StatementFails(w)

Next == HandlerStep(Workers)

Spec == Init /\ [][Next]_vars

\* one request at a time, with the catalog changing between the handler's steps
CatalogNext ==
    \/ HandlerStep({1})
    \/ \E p \in ReqProducts, price \in NewPrices : ChangePrice(p, price)
    \/ \E p \in ReqProducts : RemoveProduct(p)

SpecCatalog == Init /\ [][CatalogNext]_vars

\* ---------------------------------------------------------------- properties

Absent(tables, invoice_id) == \A i \in tables.invoices : i.id # invoice_id

InvoiceIdsOf(tables) == {i.id : i \in tables.invoices}

RECURSIVE SumOfRows(_)
SumOfRows(rows) ==
    IF rows = {} THEN 0
    ELSE LET r == CHOOSE x \in rows : TRUE
         IN  r.line_total + SumOfRows(rows \ {r})

InCreateTransaction(w) == lock = w /\ pc[w] \in {"insert_items", "return_created"}

\* C1: in every state the committed tables hold no item without its header,
\* every committed header has all of its items (its stored total is the total of
\* the committed items, and as many items as the create answered with), and the
\* header and items an open create has written so far are not in the committed
\* tables.
AtomicPersistence ==
    /\ \A ii \in db.invoice_items : ~Absent(db, ii.invoice_id)
    /\ \A i \in db.invoices :
          i.total_amount * 100 = SumOfRows(ItemsOf(db, i.id)) * (100 + TaxRatePercent)
    /\ (response.op = "create" /\ response.status = 201 /\ ~Absent(db, response.body.id))
          => Cardinality(ItemsOf(db, response.body.id)) = Len(response.body.items)
    /\ \A w \in Workers : InCreateTransaction(w) =>
          /\ Absent(db, local[w].invoice_id)
          /\ ItemsOf(db, local[w].invoice_id) = {}

\* a create failed after its header insert while another invoice is persisted
AtomicPersistenceWitness ==
    /\ response.op = "create"
    /\ response.status = 500
    /\ response.detail.kind = "Database error"
    /\ db.invoices # {}
    /\ db.invoice_items # {}

\* C2: a create whose invoice_no is taken when it inserts its header answers
\* 400 and leaves the committed tables as they were.
DuplicateInvoiceNumber400 ==
    [][\A w \in Workers :
          (InsertInvoice(w) /\ InvoiceNoTaken(db, local[w].invoice.invoice_no))
              => (response'.status = 400 /\ db' = db)]_vars

MissingProducts(invoice) ==
    {k \in 1..Len(invoice.items) : invoice.items[k].product_id \notin DOMAIN products}

\* C3: a create naming a missing client, or a missing product at any position,
\* answers 404 (Client not found, or Product not found with the id of the first
\* missing product) in its first step, and that step writes nothing.  (The first
\* step of a create takes its worker to "insert_invoice" or answers the create.)
RejectsBeforeWrite ==
    [][\A w \in Workers :
        (pc[w] = "idle" /\ (pc'[w] = "insert_invoice" \/ (response'.op = "create" /\ response' # response))) =>
        \A invoice \in InvoiceCreate :
          (/\ invoice.client_id \notin DOMAIN clients \/ MissingProducts(invoice) # {}
           /\ CreateInvoiceValidate(w, invoice))
              => /\ response'.op = "create"
                 /\ response'.status = 404
                 /\ IF invoice.client_id \notin DOMAIN clients
                    THEN response'.detail = [kind |-> "Client not found"]
                    ELSE /\ response'.detail.kind = "Product not found"
                         /\ \E k \in MissingProducts(invoice) :
                               /\ \A j \in MissingProducts(invoice) : k <= j
                               /\ response'.detail.product_id = invoice.items[k].product_id
                 /\ UNCHANGED <<db, tx, lock, pc, local>>]_vars

\* a create was refused for a missing product while an invoice is persisted
RejectsBeforeWriteWitness ==
    /\ response.op = "create"
    /\ response.status = 404
    /\ response.detail.kind = "Product not found"
    /\ db.invoices # {}

ExampleItems ==
    <<[product_id |-> 1, quantity |-> 2], [product_id |-> 3, quantity |-> 1]>>

\* C4: every persisted item's line_total is unit_price * quantity, every
\* persisted invoice's tax_amount is 10% of the sum of its line totals and its
\* total_amount that sum plus the tax; 10.0 x 2 and 50.0 x 1 give tax 7.0 and
\* total 77.0; and what a create answered is what get_invoice answers for that
\* invoice while it is persisted.
TotalsCorrect ==
    /\ \A i \in db.invoices :
          LET rows == ItemsOf(db, i.id)
              subtotal == SumOfRows(rows)
          IN  /\ \A ii \in rows : ii.line_total = ii.unit_price * ii.quantity
              /\ i.tax_amount * 100 = subtotal * TaxRatePercent
              /\ i.total_amount = subtotal + i.tax_amount
    /\ LET r == calculate_invoice_totals(ExampleItems, seed_products)
       IN  /\ r.ok
           /\ r.processed_items[1].line_total = 20000
           /\ r.processed_items[2].line_total = 50000
           /\ r.tax_amount = 7000
           /\ r.total_amount = 77000
    /\ (response.op = "create" /\ response.status = 201 /\ ~Absent(db, response.body.id))
          => LET created == response.body
                 got == get_invoice(db, products, created.id)
             IN  /\ got.status = 200
                 /\ got.body.tax_amount = created.tax_amount
                 /\ got.body.total_amount = created.total_amount
                 /\ got.body.invoice_no = created.invoice_no
                 /\ got.body.client_name = created.client_name
                 /\ Len(got.body.items) = Len(created.items)
                 /\ \A k \in 1..Len(created.items) :
                       /\ got.body.items[k].product_name = created.items[k].product_name
                       /\ got.body.items[k].quantity = created.items[k].quantity
                       /\ got.body.items[k].unit_price = created.items[k].unit_price
                       /\ got.body.items[k].line_total = created.items[k].line_total

\* a create of two items, one of quantity 2, was answered and is persisted
TotalsCorrectWitness ==
    /\ response.op = "create"
    /\ response.status = 201
    /\ ~Absent(db, response.body.id)
    /\ Len(response.body.items) = 2
    /\ response.body.items[1].quantity = 2
    /\ response.body.total_amount = 33000

\* C5: when a delete answers 204 the header and the items of its id are gone
\* from the committed tables; get_invoice answers 404 for every id with no
\* persisted header; and an id that was issued and is not persisted is never
\* persisted again.
DeletedStaysGone ==
    /\ [](\A id \in InvoiceIds :
            Absent(db, id) => get_invoice(db, products, id) = NotFoundResponse("get", id))
    /\ [][\A w \in Workers :
            ReturnDeleted(w) =>
                /\ response'.status = 204
                /\ Absent(db', local[w].invoice_id)
                /\ ItemsOf(db', local[w].invoice_id) = {}]_vars
    /\ [][\A id \in InvoiceIds :
            (id <= db.seq_invoices /\ Absent(db, id)) => Absent(db', id)]_vars

\* a delete was answered 204 and a get of the same id then answered 404
DeletedStaysGoneWitness ==
    /\ history.deleted > 0
    /\ response.op = "get"
    /\ response.status = 404
    /\ response.arg <= db.seq_invoices

\* C6: a delete of an id with no persisted invoice answers 404 in its first step
\* and changes nothing else; after a delete answered 204 its id has no persisted
\* invoice, so a second delete of it answers 404.
DeleteMissingNotFound ==
    /\ [][\A w \in Workers, id \in InvoiceIds :
            (Absent(db, id) /\ DeleteInvoiceCheck(w, id))
                => /\ response' = NotFoundResponse("delete", id)
                   /\ UNCHANGED <<db, tx, lock, pc, local, history>>]_vars
    /\ []((response.op = "delete" /\ response.status = 204) => Absent(db, response.arg))

\* the second delete of an id that was created and deleted answered 404
DeleteMissingNotFoundWitness ==
    /\ history.deleted > 0
    /\ response = NotFoundResponse("delete", 1)
    /\ db.seq_invoices >= 1

SummaryFields ==
    {"id", "invoice_no", "issue_date", "due_date", "client_name", "total_amount"}

\* C7: with N creates answered 201 and no delete answered 204, list_invoices
\* returns N summaries, one per persisted invoice, in strictly decreasing id,
\* none with items or a tax amount.
ListNewestFirst ==
    history.deleted = 0 =>
        LET l == list_invoices(db)
        IN  /\ Len(l) = history.created
            /\ {l[k].id : k \in 1..Len(l)} = InvoiceIdsOf(db)
            /\ \A k \in 1..(Len(l) - 1) : l[k].id > l[k + 1].id
            /\ \A k \in 1..Len(l) : DOMAIN l[k] = SummaryFields

\* two invoices were created, none deleted, and list_invoices answered
ListNewestFirstWitness ==
    /\ history.created = 2
    /\ history.deleted = 0
    /\ response.op = "list"
    /\ Len(response.body) = 2

\* C8: a step that changes the committed invoices is a create answering 201 that
\* adds one row with a new id, or a delete answering 204 that removes the row of
\* its id and no other; every other step leaves the committed invoices and items
\* as they were.
OnlyCreateAndDeleteChange ==
    [][/\ db'.invoices # db.invoices =>
            \/ \E w \in Workers :
                  /\ ReturnCreated(w)
                  /\ response'.status = 201
                  /\ Absent(db, response'.body.id)
                  /\ db.invoices \subseteq db'.invoices
                  /\ InvoiceIdsOf(db') = InvoiceIdsOf(db) \cup {response'.body.id}
                  /\ Cardinality(db'.invoices) = Cardinality(db.invoices) + 1
            \/ \E w \in Workers :
                  /\ ReturnDeleted(w)
                  /\ response'.status = 204
                  /\ db'.invoices = {i \in db.invoices : i.id # local[w].invoice_id}
                  /\ db'.invoice_items =
                        {ii \in db.invoice_items : ii.invoice_id # local[w].invoice_id}
       /\ (\A w \in Workers : ~ReturnCreated(w) /\ ~ReturnDeleted(w)) =>
            /\ db'.invoices = db.invoices
            /\ db'.invoice_items = db.invoice_items]_vars

\* a delete removed one of two persisted invoices
OnlyCreateAndDeleteChangeWitness ==
    /\ response.op = "delete"
    /\ response.status = 204
    /\ db.invoices # {}

\* C9: every persisted invoice has at least one item.
EveryInvoiceHasItems ==
    \A i \in db.invoices : ItemsOf(db, i.id) # {}

\* C10: a change of the catalog (a price changed, a product row removed) leaves
\* what get_invoice returns for every persisted invoice as it was: found, with
\* the same number of items and the same unit_price and line_total per item.
CatalogChangeKeepsInvoices ==
    [][products' # products =>
        \A i \in db.invoices :
            LET before == get_invoice(db, products, i.id)
                after == get_invoice(db', products', i.id)
            IN  /\ after.status = before.status
                /\ Len(after.body.items) = Len(before.body.items)
                /\ \A k \in 1..Len(before.body.items) :
                      /\ after.body.items[k].unit_price = before.body.items[k].unit_price
                      /\ after.body.items[k].line_total = before.body.items[k].line_total]_vars

====
